---- MODULE Spec2Model ----
(***************************************************************************)
(* Model of Normalization_Techniques/Normalization.ipynb.                  *)
(*                                                                         *)
(* The notebook has three working sections: data normalization (min-max    *)
(* scaling and z-score normalization of a sample), batch / layer           *)
(* normalization of a B x F tensor of activations (the two formulas with   *)
(* epsilon, gamma and beta), and the two example networks whose forward    *)
(* method chains layer1, a normalization layer, relu and layer2.           *)
(*                                                                         *)
(* Arithmetic is exact.  A rational is a pair <<n, d>> in lowest terms     *)
(* with d > 0.  A surd <<c, q>> stands for c * sqrt(q) with c, q rational  *)
(* and q >= 0, which is closed under the products and quotients the        *)
(* formulas need; a normalized activation gamma * x_hat + beta is the      *)
(* pair <<s, r>> standing for s + r with s a surd and r a rational.        *)
(* A quotient whose denominator is zero is the value Undefined, the empty  *)
(* tuple, which no number and no non-empty sample or tensor equals.        *)
(***************************************************************************)
EXTENDS Integers, Sequences, FiniteSets

VARIABLES cell,             \* section being run: "idle", "data", "norm", "net"
          data,             \* the sample handed to the scaler
          scaler,           \* "none", "minmax", "zscore"
          normalized_data,  \* the scaled sample, or Undefined
          x,                \* B x F tensor of activations
          eps,              \* epsilon of the normalization formula
          gamma,            \* learnable scale, one per feature
          beta,             \* learnable shift, one per feature
          technique,        \* "none", "batch", "layer"
          x_hat,            \* normalized activations
          y,                \* scaled and shifted activations
          net,              \* which example network: "none", "batch", "layer"
          input_data,       \* shape of the tensor forward was called with
          pc,               \* position inside forward
          shape,            \* shape of the tensor flowing through forward
          applied           \* the submodules forward has called, in order

vars == <<cell, data, scaler, normalized_data, x, eps, gamma, beta, technique,
          x_hat, y, net, input_data, pc, shape, applied>>

dataVars == <<data, scaler, normalized_data>>
normVars == <<x, eps, gamma, beta, technique, x_hat, y>>
netVars == <<net, input_data, pc, shape, applied>>

----------------------------------------------------------------------------
(* Bounds of the model. *)

MaxLen == 3        \* longest sample
MaxVal == 2        \* sample values range over -MaxVal .. MaxVal
MaxElems == 4      \* a tensor of activations has at most this many entries
MaxAct == 1        \* activations range over 0 .. MaxAct
MaxEpsDen == 2     \* epsilon ranges over 1/1 .. 1/MaxEpsDen
MaxGamma == 2      \* uniform gamma ranges over 0 .. MaxGamma
MaxBeta == 1       \* uniform beta ranges over 0 .. MaxBeta
MaxRows == 5       \* forward is run on 1 .. MaxRows rows

----------------------------------------------------------------------------
(* Exact rational arithmetic. *)

Undefined == <<>>

Abs(n) == IF n < 0 THEN 0 - n ELSE n

RECURSIVE GCD(_, _)
GCD(a, b) == IF b = 0 THEN a ELSE GCD(b, a % b)

Rat(n, d) ==
    LET g == GCD(Abs(n), Abs(d))
        sgn == IF d < 0 THEN 0 - 1 ELSE 1
    IN  <<(sgn * n) \div g, (sgn * d) \div g>>

FromInt(n) == <<n, 1>>
Zero == FromInt(0)
One == FromInt(1)

RAdd(a, b) == Rat(a[1] * b[2] + b[1] * a[2], a[2] * b[2])
RSub(a, b) == Rat(a[1] * b[2] - b[1] * a[2], a[2] * b[2])
RMul(a, b) == Rat(a[1] * b[1], a[2] * b[2])
RInv(a) == Rat(a[2], a[1])
RLe(a, b) == a[1] * b[2] <= b[1] * a[2]
RLt(a, b) == a[1] * b[2] < b[1] * a[2]
RSign(a) == IF a[1] > 0 THEN 1 ELSE IF a[1] < 0 THEN 0 - 1 ELSE 0

\* a / b, undefined when b is zero
RDiv(a, b) == IF b = Zero THEN Undefined ELSE RMul(a, RInv(b))

RECURSIVE RSum(_)
RSum(s) == IF s = <<>> THEN Zero ELSE RAdd(Head(s), RSum(Tail(s)))

----------------------------------------------------------------------------
(* Surds c * sqrt(q). *)

Coef(s) == s[1]
Radicand(s) == s[2]
Sqrt(r) == <<One, r>>
Plain(r) == <<r, One>>
SurdSign(s) == IF Radicand(s) = Zero THEN 0 ELSE RSign(Coef(s))
SurdSq(s) == RMul(RMul(Coef(s), Coef(s)), Radicand(s))
SurdMul(s, t) == <<RMul(Coef(s), Coef(t)), RMul(Radicand(s), Radicand(t))>>
SurdEq(s, t) == SurdSign(s) = SurdSign(t) /\ SurdSq(s) = SurdSq(t)
SurdEqRat(s, r) == SurdEq(s, Plain(r))

\* r / s, undefined when the surd s is zero
RDivSurd(r, s) ==
    IF SurdSign(s) = 0 THEN Undefined
    ELSE <<RMul(r, RInv(Coef(s))), RInv(Radicand(s))>>

\* Equality of two values s + r (s a surd, r a rational), either possibly
\* Undefined.  With D the difference of the rational parts, A - B = D for surds
\* A, B and D # 0 forces B = (A^2 - B^2 - D^2) / (2 D), a rational.
ValEq(v, w) ==
    IF v = Undefined \/ w = Undefined THEN v = Undefined /\ w = Undefined
    ELSE LET A == v[1]
             B == w[1]
             D == RSub(w[2], v[2])
         IN  IF D = Zero THEN SurdEq(A, B)
             ELSE LET R == RMul(RSub(RSub(SurdSq(A), SurdSq(B)), RMul(D, D)),
                                RInv(RMul(FromInt(2), D)))
                  IN  SurdEqRat(B, R) /\ SurdEqRat(A, RAdd(R, D))

ValEqRat(v, r) == ValEq(v, <<Plain(Zero), r>>)

----------------------------------------------------------------------------
(* Sample statistics. *)

Mean(s) == RMul(RSum([i \in 1..Len(s) |-> FromInt(s[i])]), RInv(FromInt(Len(s))))

\* population variance: the mean of the squared deviations from the mean
Variance(s) ==
    LET mu == Mean(s)
        dev(i) == RSub(FromInt(s[i]), mu)
    IN  RMul(RSum([i \in 1..Len(s) |-> RMul(dev(i), dev(i))]), RInv(FromInt(Len(s))))

RECURSIVE SeqMin(_)
SeqMin(s) ==
    IF Len(s) = 1 THEN s[1]
    ELSE LET m == SeqMin(Tail(s)) IN IF s[1] <= m THEN s[1] ELSE m

RECURSIVE SeqMax(_)
SeqMax(s) ==
    IF Len(s) = 1 THEN s[1]
    ELSE LET m == SeqMax(Tail(s)) IN IF s[1] >= m THEN s[1] ELSE m

----------------------------------------------------------------------------
(* Data normalization. *)

MinMaxNoShift(X, Xmin, Xmax) == RDiv(FromInt(X), FromInt(Xmax - Xmin))
MinMaxReversed(X, Xmin, Xmax) == RDiv(FromInt(Xmax - X), FromInt(Xmax - Xmin))
MinMaxGuarded(X, Xmin, Xmax) ==
    RDiv(FromInt(X - Xmin), FromInt(IF Xmax = Xmin THEN 1 ELSE Xmax - Xmin))

\* X' = (X - Xmin) / (Xmax - Xmin)
MinMax(X, Xmin, Xmax) == RDiv(FromInt(X - Xmin), FromInt(Xmax - Xmin))

ZScoreNoCentre(X, mu, var) == RDivSurd(FromInt(X), Sqrt(var))

\* X' = (X - mu) / sigma, sigma the square root of the variance
ZScore(X, mu, var) == RDivSurd(RSub(FromInt(X), mu), Sqrt(var))

\* a sample none of whose values could be scaled has no scaled form
Collect(s) == IF \E i \in 1..Len(s) : s[i] = Undefined THEN Undefined ELSE s

MinMaxScaling(s) ==
    Collect([i \in 1..Len(s) |-> MinMax(s[i], SeqMin(s), SeqMax(s))])

ZScoreNormalization(s) ==
    Collect([i \in 1..Len(s) |-> ZScore(s[i], Mean(s), Variance(s))])

Values == (0 - MaxVal)..MaxVal
Samples == UNION {[1..n -> Values] : n \in 1..MaxLen}

----------------------------------------------------------------------------
(* Batch normalization and layer normalization of a B x F tensor. *)

Rows(t) == Len(t)
Cols(t) == Len(t[1])
Column(t, j) == [i \in 1..Rows(t) |-> t[i][j]]

DenominatorNoEps(var, e) == Sqrt(var)

\* sqrt(sigma^2 + epsilon)
Denominator(var, e) == Sqrt(RAdd(var, e))

\* x_hat = (x - mu) / sqrt(sigma^2 + epsilon)
Normalize(v, mu, var, e) == RDivSurd(RSub(FromInt(v), mu), Denominator(var, e))

ScaleOnly(g, xh, b) ==
    IF xh = Undefined THEN Undefined ELSE <<SurdMul(g, xh), Zero>>

\* y = gamma * x_hat + beta
ScaleShift(g, xh, b) ==
    IF xh = Undefined THEN Undefined ELSE <<SurdMul(g, xh), b>>

\* batch normalization of entry (i, j): mu_B and sigma_B^2 are the mean and
\* variance of the batch, per feature
BatchNormEntry(t, e, i, j) ==
    Normalize(t[i][j], Mean(Column(t, j)), Variance(Column(t, j)), e)

LayerNormEntryOverBatch(t, e, i, j) ==
    Normalize(t[i][j], Mean(Column(t, j)), Variance(Column(t, j)), e)

\* layer normalization of entry (i, j): mu and sigma^2 are calculated across
\* the features, per example
LayerNormEntry(t, e, i, j) ==
    Normalize(t[i][j], Mean(t[i]), Variance(t[i]), e)

BatchNormHat(t, e) ==
    [i \in 1..Rows(t) |-> [j \in 1..Cols(t) |-> BatchNormEntry(t, e, i, j)]]

LayerNormHat(t, e) ==
    [i \in 1..Rows(t) |-> [j \in 1..Cols(t) |-> LayerNormEntry(t, e, i, j)]]

Affine(h, g, b) ==
    [i \in 1..Len(h) |-> [j \in 1..Len(h[i]) |-> ScaleShift(g[j], h[i][j], b[j])]]

Activations == 0..MaxAct
Tensors ==
    UNION {[1..B -> [1..F -> Activations]] :
           <<B, F>> \in {p \in (1..MaxElems) \X (1..MaxElems) : p[1] * p[2] <= MaxElems}}
EpsChoices == {Rat(1, k) : k \in 1..MaxEpsDen}

\* the values of gamma and beta that undo batch normalization of t
UndoGamma(t, e) == [j \in 1..Cols(t) |-> Denominator(Variance(Column(t, j)), e)]
UndoBeta(t) == [j \in 1..Cols(t) |-> Mean(Column(t, j))]

\* values the learnable parameters may have taken
ParamChoices(t, e) ==
    {[gamma |-> [j \in 1..Cols(t) |-> Plain(FromInt(g))], beta |-> [j \in 1..Cols(t) |-> FromInt(b)]] :
        <<g, b>> \in (0..MaxGamma) \X (0..MaxBeta)}
    \cup {[gamma |-> UndoGamma(t, e), beta |-> UndoBeta(t)]}

----------------------------------------------------------------------------
(* The example networks. *)

InFeatures == 10       \* nn.Linear(10, 50), nn.Linear(50, 10)
HiddenFeatures == 50   \* nn.Linear(10, 50), nn.BatchNorm1d(50), nn.LayerNorm(50)
ExampleRows == 5       \* torch.randn(5, 10)

NormName(n) == IF n = "batch" THEN "batch_norm1" ELSE "layer_norm1"

StepAfterActivationFirst(p) ==
    CASE p = "layer1" -> "relu"
      [] p = "relu" -> "norm"
      [] p = "norm" -> "layer2"
      [] p = "layer2" -> "return"

\* the order of the statements of forward
StepAfter(p) ==
    CASE p = "layer1" -> "norm"
      [] p = "norm" -> "relu"
      [] p = "relu" -> "layer2"
      [] p = "layer2" -> "return"

\* nn.Linear(nin, nout) on a tensor of shape sh: the last dimension must be nin
Linear(sh, nin, nout) == IF sh[2] = nin THEN <<sh[1], nout>> ELSE Undefined

\* nn.BatchNorm1d(n).  model = NeuralNetwork() is never switched to eval mode,
\* so batch_norm1 normalizes with the statistics of the batch: the width must be
\* n, and torch raises ValueError ("Expected more than 1 value per channel when
\* training") for a batch of a single row
BatchNorm1d(sh, n) == IF sh[2] = n /\ sh[1] > 1 THEN sh ELSE Undefined

\* nn.LayerNorm(n): the last dimension must be n
LayerNormShape(sh, n) == IF sh[2] = n THEN sh ELSE Undefined

----------------------------------------------------------------------------
(* Initial state and actions. *)

Init ==
    /\ cell = "idle"
    /\ data = <<>> /\ scaler = "none" /\ normalized_data = <<>>
    /\ x = <<>> /\ eps = Zero /\ gamma = <<>> /\ beta = <<>>
    /\ technique = "none" /\ x_hat = <<>> /\ y = <<>>
    /\ net = "none" /\ input_data = <<>> /\ pc = "none" /\ shape = <<>> /\ applied = <<>>

\* a sample is handed to the data-normalization section
LoadData ==
    /\ cell = "idle"
    /\ cell' = "data"
    /\ \E s \in Samples : data' = s
    /\ UNCHANGED <<scaler, normalized_data, normVars, netVars>>

ApplyMinMax ==
    /\ cell = "data" /\ scaler = "none"
    /\ scaler' = "minmax"
    /\ normalized_data' = MinMaxScaling(data)
    /\ UNCHANGED <<cell, data, normVars, netVars>>

ApplyZScore ==
    /\ cell = "data" /\ scaler = "none"
    /\ scaler' = "zscore"
    /\ normalized_data' = ZScoreNormalization(data)
    /\ UNCHANGED <<cell, data, normVars, netVars>>

\* a tensor of activations reaches a normalization layer with given parameters
LoadActivations ==
    /\ cell = "idle"
    /\ cell' = "norm"
    /\ \E t \in Tensors : \E e \in EpsChoices : \E p \in ParamChoices(t, e) :
          x' = t /\ eps' = e /\ gamma' = p.gamma /\ beta' = p.beta
    /\ UNCHANGED <<technique, x_hat, y, dataVars, netVars>>

BatchNormalization ==
    /\ cell = "norm" /\ technique = "none"
    /\ technique' = "batch"
    /\ x_hat' = BatchNormHat(x, eps)
    /\ y' = Affine(x_hat', gamma, beta)
    /\ UNCHANGED <<cell, x, eps, gamma, beta, dataVars, netVars>>

LayerNormalization ==
    /\ cell = "norm" /\ technique = "none"
    /\ technique' = "layer"
    /\ x_hat' = LayerNormHat(x, eps)
    /\ y' = Affine(x_hat', gamma, beta)
    /\ UNCHANGED <<cell, x, eps, gamma, beta, dataVars, netVars>>

\* model = NeuralNetwork(); model(input_data) enters forward
CallForward ==
    /\ cell = "idle"
    /\ cell' = "net"
    /\ \E n \in {"batch", "layer"} : \E B \in 1..MaxRows :
          /\ net' = n
          /\ input_data' = <<B, InFeatures>>
          /\ shape' = <<B, InFeatures>>
    /\ pc' = "layer1"
    /\ applied' = <<>>
    /\ UNCHANGED <<dataVars, normVars>>

\* one statement of forward: the submodule at pc is applied to the tensor
Advance(name, out) ==
    /\ applied' = Append(applied, name)
    /\ IF out = Undefined
       THEN pc' = "error" /\ shape' = shape
       ELSE pc' = StepAfter(pc) /\ shape' = out
    /\ UNCHANGED <<cell, net, input_data, dataVars, normVars>>

Layer1 ==
    /\ cell = "net" /\ pc = "layer1"
    /\ Advance("layer1", Linear(shape, InFeatures, HiddenFeatures))

NormStep ==
    /\ cell = "net" /\ pc = "norm"
    /\ Advance(NormName(net),
               IF net = "batch" THEN BatchNorm1d(shape, HiddenFeatures)
               ELSE LayerNormShape(shape, HiddenFeatures))

Relu ==
    /\ cell = "net" /\ pc = "relu"
    /\ Advance("relu", shape)

Layer2 ==
    /\ cell = "net" /\ pc = "layer2"
    /\ Advance("layer2", Linear(shape, HiddenFeatures, InFeatures))

Return ==
    /\ cell = "net" /\ pc = "return"
    /\ pc' = "done"
    /\ UNCHANGED <<cell, net, input_data, shape, applied, dataVars, normVars>>

Next ==
    \/ LoadData
    \/ ApplyMinMax
    \/ ApplyZScore
    \/ LoadActivations
    \/ BatchNormalization
    \/ LayerNormalization
    \/ CallForward
    \/ Layer1
    \/ NormStep
    \/ Relu
    \/ Layer2
    \/ Return

Spec == Init /\ [][Next]_vars

----------------------------------------------------------------------------
(* Data normalization: properties. *)

MinMaxRan == cell = "data" /\ scaler = "minmax"
ZScoreRan == cell = "data" /\ scaler = "zscore"
InUnitRange(r) == RLe(Zero, r) /\ RLe(r, One)

\* C1: after min-max scaling of a sample whose minimum is strictly below its
\* maximum, every scaled value of the sample, and the scaled form of every
\* value X with Xmin <= X <= Xmax, lies in [0, 1].
C1_MinMaxInUnitRange ==
    MinMaxRan /\ SeqMin(data) < SeqMax(data) =>
        /\ normalized_data # Undefined
        /\ \A i \in 1..Len(data) : InUnitRange(normalized_data[i])
        /\ \A X \in SeqMin(data)..SeqMax(data) :
              /\ MinMax(X, SeqMin(data), SeqMax(data)) # Undefined
              /\ InUnitRange(MinMax(X, SeqMin(data), SeqMax(data)))

\* a sample with distinct extremes was scaled and one value landed strictly
\* inside the range
C1_Witness ==
    /\ MinMaxRan /\ SeqMin(data) < SeqMax(data) /\ SeqMin(data) # 0
    /\ normalized_data # Undefined
    /\ \E i \in 1..Len(data) :
          RLt(Zero, normalized_data[i]) /\ RLt(normalized_data[i], One)

\* mean and variance of a z-scored sample, all of whose values are multiples
\* of the same surd 1 / sigma
NormalizedMean(s) ==
    <<RMul(RSum([i \in 1..Len(s) |-> Coef(s[i])]), RInv(FromInt(Len(s)))),
      Radicand(s[1])>>

NormalizedVariance(s) ==
    LET m == NormalizedMean(s)
        dev(i) == <<RSub(Coef(s[i]), Coef(m)), Radicand(s[1])>>
    IN  RMul(RSum([i \in 1..Len(s) |-> SurdSq(dev(i))]), RInv(FromInt(Len(s))))

\* C2: after z-score normalization of a non-empty sample whose population
\* standard deviation is positive, the normalized sample has mean exactly 0
\* and variance exactly 1.
C2_ZScoreZeroMeanUnitVariance ==
    ZScoreRan /\ Variance(data) # Zero =>
        /\ normalized_data # Undefined
        /\ \A i \in 1..Len(data) :
              Radicand(normalized_data[i]) = Radicand(normalized_data[1])
        /\ SurdSign(NormalizedMean(normalized_data)) = 0
        /\ NormalizedVariance(normalized_data) = One

\* a sample of three values with non-zero mean and spread was z-scored
C2_Witness ==
    /\ ZScoreRan /\ Len(data) = 3
    /\ Variance(data) # Zero /\ Mean(data) # Zero
    /\ normalized_data # Undefined

AllEqual(s) == \A i, k \in 1..Len(s) : s[i] = s[k]

\* C8: neither formula guards its denominator: scaling a sample yields no
\* normalized value exactly when all values of the sample are equal, so the
\* range and mean / variance results exist only for samples with at least two
\* distinct values.
C8_NoGuardForConstantSample ==
    /\ MinMaxRan =>
          /\ normalized_data = Undefined <=> AllEqual(data)
          /\ AllEqual(data) =>
                \A i \in 1..Len(data) :
                    MinMax(data[i], SeqMin(data), SeqMax(data)) = Undefined
    /\ ZScoreRan =>
          /\ normalized_data = Undefined <=> AllEqual(data)
          /\ AllEqual(data) =>
                \A i \in 1..Len(data) :
                    ZScore(data[i], Mean(data), Variance(data)) = Undefined

\* a constant sample of several values went through min-max scaling
C8_Witness ==
    /\ MinMaxRan /\ Len(data) >= 2 /\ AllEqual(data)
    /\ normalized_data = Undefined

\* C9: min-max scaling of a sample with Xmin < Xmax maps the minimum to 0 and
\* the maximum to 1 and preserves order, weakly and strictly.
C9_MinMaxEndpointsAndOrder ==
    MinMaxRan /\ SeqMin(data) < SeqMax(data) =>
        /\ normalized_data # Undefined
        /\ \A i \in 1..Len(data) :
              /\ data[i] = SeqMin(data) => normalized_data[i] = Zero
              /\ data[i] = SeqMax(data) => normalized_data[i] = One
        /\ \A i, k \in 1..Len(data) :
              /\ data[i] <= data[k] => RLe(normalized_data[i], normalized_data[k])
              /\ data[i] < data[k] => RLt(normalized_data[i], normalized_data[k])

\* three distinct values were scaled
C9_Witness ==
    /\ MinMaxRan /\ Len(data) = 3
    /\ data[1] < data[2] /\ data[2] < data[3]
    /\ normalized_data # Undefined
    /\ normalized_data[1] = Zero /\ normalized_data[3] = One

----------------------------------------------------------------------------
(* Batch and layer normalization: properties. *)

BatchNormRan == cell = "norm" /\ technique = "batch"
LayerNormRan == cell = "norm" /\ technique = "layer"

\* output entry (i, j) of either layer on a tensor t, with the parameters and
\* epsilon of the current state
BatchNorm(t, i, j) == ScaleShift(gamma[j], BatchNormEntry(t, eps, i, j), beta[j])
LayerNorm(t, i, j) == ScaleShift(gamma[j], LayerNormEntry(t, eps, i, j), beta[j])

\* C3: with gamma, beta and epsilon fixed, the layer-normalized output of an
\* example is the same in the batch it was normalized in, in the batch of size
\* 1 holding only that example, and in every batch of size 2 pairing it with
\* another example (hence, by transitivity, in any two batches holding it).
\* Batch normalization has no such independence: an activation that differs
\* from its batch mean, scaled by a non-zero gamma, comes out of the batch
\* different from what it is when normalized alone.
C3_LayerNormBatchIndependent ==
    /\ LayerNormRan =>
          \A i \in 1..Rows(x) : \A j \in 1..Cols(x) :
              /\ ValEq(y[i][j], LayerNorm(<<x[i]>>, 1, j))
              /\ \A k \in 1..Rows(x) :
                    ValEq(y[i][j], LayerNorm(<<x[k], x[i]>>, 2, j))
    /\ BatchNormRan =>
          \A i \in 1..Rows(x) : \A j \in 1..Cols(x) :
              SurdSign(gamma[j]) # 0 /\ FromInt(x[i][j]) # Mean(Column(x, j)) =>
                  ~ValEq(y[i][j], BatchNorm(<<x[i]>>, 1, j))

\* layer normalization ran on a batch of two different examples with several
\* features and spread within the first example; on those same two batches
\* (the batch and the first example alone) batch normalization disagrees
C3_Witness ==
    /\ LayerNormRan /\ Rows(x) = 2 /\ Cols(x) = 2
    /\ x[1] # x[2] /\ Variance(x[1]) # Zero
    /\ SurdSign(gamma[1]) # 0
    /\ ValEq(y[1][1], LayerNorm(<<x[1]>>, 1, 1))
    /\ \E j \in 1..Cols(x) : ~ValEq(BatchNorm(x, 1, j), BatchNorm(<<x[1]>>, 1, j))

IsUndoParams == gamma = UndoGamma(x, eps) /\ beta = UndoBeta(x)

\* C5: with gamma = sqrt(sigma_B^2 + epsilon) and beta = mu_B, per feature,
\* the batch-normalized output y equals the input x at every entry of the
\* batch.
C5_GammaBetaUndoBatchNorm ==
    BatchNormRan /\ IsUndoParams =>
        \A i \in 1..Rows(x) : \A j \in 1..Cols(x) :
            ValEqRat(y[i][j], FromInt(x[i][j]))

\* batch normalization ran with the undoing parameters on a batch of several
\* examples whose first feature varies across the batch
C5_Witness ==
    /\ BatchNormRan /\ IsUndoParams
    /\ Rows(x) >= 2 /\ Variance(Column(x, 1)) # Zero
    /\ ValEqRat(y[1][1], FromInt(x[1][1]))
    /\ gamma[1] # Plain(One)

\* variance of the group an entry is normalized with: its feature's column for
\* batch normalization, its example's row for layer normalization
GroupVariance(i, j) ==
    IF technique = "batch" THEN Variance(Column(x, j)) ELSE Variance(x[i])

\* C6: in batch and in layer normalization epsilon is positive, so the
\* denominator sqrt(sigma^2 + epsilon) is strictly positive and x_hat and y are
\* defined for every input; where the variance is zero, x_hat is 0 and y is
\* beta.
C6_EpsilonAvoidsDivisionByZero ==
    BatchNormRan \/ LayerNormRan =>
        /\ RSign(eps) = 1
        /\ \A i \in 1..Rows(x) : \A j \in 1..Cols(x) :
              /\ SurdSign(Denominator(GroupVariance(i, j), eps)) = 1
              /\ x_hat[i][j] # Undefined
              /\ y[i][j] # Undefined
              /\ GroupVariance(i, j) = Zero =>
                    /\ SurdSign(x_hat[i][j]) = 0
                    /\ ValEqRat(y[i][j], beta[j])

\* batch normalization ran on a batch of several equal examples
C6_Witness ==
    /\ BatchNormRan /\ Rows(x) >= 2
    /\ \A j \in 1..Cols(x) : Variance(Column(x, j)) = Zero
    /\ SurdSign(gamma[1]) # 0
    /\ y[1][1] # Undefined /\ ValEqRat(y[1][1], beta[1])

----------------------------------------------------------------------------
(* The example networks: properties. *)

ForwardSteps(n) == <<"layer1", NormName(n), "relu", "layer2">>
Position(name) == CHOOSE i \in 1..Len(applied) : applied[i] = name
Finished == cell = "net" /\ pc \in {"done", "error"}

\* C4: in the batch-normalization network, forward applies batch_norm1 after
\* relu.
C4_BatchNormAfterActivation ==
    cell = "net" /\ net = "batch" /\ pc = "done" =>
        Position("batch_norm1") > Position("relu")

ExpectedWidth(p) ==
    CASE p = "layer1" -> InFeatures
      [] p \in {"norm", "relu", "layer2"} -> HiddenFeatures
      [] p \in {"return", "done"} -> InFeatures

====
